---- MODULE Spec2Model ----
(***************************************************************************)
(* LocalFileCache (src/src/lib.rs): a directory of entry files, one per    *)
(* key, filled by or_insert_with through save_to's create_new + rename     *)
(* protocol, emptied by flush and invalidate.  Several callers (threads or *)
(* processes, each with its own handle over the same directory) run the    *)
(* operations concurrently; one step of the model is one filesystem call   *)
(* of the code together with the local computation that follows it.        *)
(*                                                                         *)
(* Granularity.  File::open, metadata and read_exact of the hit path are   *)
(* one step: they act on one open file, whose content only its single      *)
(* writer extends, so what they read is the file's content at some moment  *)
(* after the open.  fs::remove_dir_all is one step, and when it fails it   *)
(* is taken to have removed nothing.  A filesystem call may also fail with *)
(* an I/O error the code does not expect (ErrorKind other than NotFound /  *)
(* AlreadyExists); MaxFaults bounds how often.  A file written through a   *)
(* descriptor stays reachable by that descriptor when it is renamed, and   *)
(* is gone from the directory when the directory is removed.               *)
(***************************************************************************)
EXTENDS Naturals, Sequences, FiniteSets

\* ------------------------------------------------------------------------
\* Bounds of the model
\* ------------------------------------------------------------------------

\* How many filesystem calls may fail with an I/O error other than the
\* NotFound / AlreadyExists the code expects, over one behaviour.
MaxFaults == 1

\* The callers; each owns a handle (dir, to_u8, from_u8) over the same dir.
Procs == {"p1", "p2"}

\* Keys are relative paths: a sequence of segments, each segment a sequence
\* of its dot-separated parts ("data0.save" is <<"data0", "save">>, and
\* "a/b" is the two segments <<"a">> and <<"b">>).
Keys == { << <<"data0">> >>, << <<"data0", "save">> >>, << <<"a">>, <<"b">> >> }

\* What a producer closure f may return (T = String in tests::can_cache).
Values == {"007", "23", "x"}

\* ------------------------------------------------------------------------
\* Pure helpers
\* ------------------------------------------------------------------------

\* Option<Vec<u8>> as a sequence of at most one byte vector: <<>> is None.
None == <<>>
Some(bin) == <<bin>>

\* str::parse::<u8> on the strings of Values.
ParseU8(s) == CASE s = "007" -> 7 [] s = "7" -> 7 [] s = "23" -> 23 [] OTHER -> 0

\* format!("{}", n) on the bytes the model writes.
FormatU8(n) == CASE n = 7 -> "7" [] n = 23 -> "23" [] OTHER -> "0"

\* The handle's to_u8: Some(vec![v.parse::<u8>()]) for a number, and None
\* (it declines to encode) for a value that is not one.
to_u8(v) == IF v = "x" THEN None ELSE Some(<<ParseU8(v)>>)

\* The handle's from_u8: format!("{}", data[0]); indexing an empty slice
\* panics.
from_u8(data) ==
    IF Len(data) = 0 THEN [tag |-> "Panic", val |-> "index out of bounds"]
    ELSE [tag |-> "Ok", val |-> FormatU8(data[1])]

Ok(v) == [tag |-> "Ok", val |-> v]
Err(kind) == [tag |-> "Err", val |-> kind]
NoResult == [tag |-> "None", val |-> "None"]
Unit == "()"

\* Path::file_stem of a file name given as its dot-separated parts: the whole
\* name when it has no dot, or begins with a dot and has no other; else the
\* part before the final dot.
file_stem(name) ==
    IF Len(name) = 1 \/ (Len(name) = 2 /\ name[1] = "") THEN name
    ELSE SubSeq(name, 1, Len(name) - 1)

\* PathBuf::set_extension: the file name becomes its stem, a dot, and ext.
set_extension(path, ext) ==
    [path EXCEPT ![Len(path)] = Append(file_stem(path[Len(path)]), ext)]

\* buf.push(k): the entry path of key k, relative to self.dir.
PathOf(key) == key

\* save_to's save_path for an entry path.
SavePathOf(path) == set_extension(path, "save")

\* Every path under self.dir the callers can name.
Paths == {PathOf(key) : key \in Keys} \cup {SavePathOf(PathOf(key)) : key \in Keys}

\* The directories under self.dir.  The code creates self.dir alone
\* (create_dir_all and create_dir are given self.dir), never one below it.
SubDirs == {}

NoFile == [data |-> <<>>, writer |-> "absent"]
NoProc == "closed"

\* ------------------------------------------------------------------------
\* The filesystem calls, as functions on the directory's content
\* ------------------------------------------------------------------------

\* A file is its bytes and the caller that still holds the descriptor it
\* created the file with (save_to's f), NoProc once that is dropped.
File(data, writer) == [data |-> data, writer |-> writer]

\* OpenOptions::new().write(true).create_new(true).open(path) succeeding.
CreateNew(fs, path, p) == [fs EXCEPT ![path] = File(<<>>, p)]

\* f.write_all(bytes): the bytes go to the file p's descriptor refers to,
\* wherever a rename has moved it; an unlinked file is no longer in fs.
WriteAll(fs, p, bytes) ==
    [q \in Paths |-> IF fs[q] # NoFile /\ fs[q].writer = p
                     THEN File(fs[q].data \o bytes, p) ELSE fs[q]]

\* A save_to whose rename was left out: the temp file stays where it is.
Rename_forgotten(fs, from, to) == fs

\* fs::rename(from, to) with from present: to is replaced atomically.
Rename(fs, from, to) ==
    IF from = to THEN fs
    ELSE [fs EXCEPT ![to] = fs[from], ![from] = NoFile]

\* Dropping save_to's f when save_to returns.
CloseFd(fs, p) ==
    [q \in Paths |-> IF fs[q] # NoFile /\ fs[q].writer = p
                     THEN File(fs[q].data, NoProc) ELSE fs[q]]

\* A removal of the entry files alone: the temp files stay.
RemoveDirAll_entries_only(fs) ==
    [q \in Paths |-> IF q \in {SavePathOf(PathOf(key)) : key \in Keys}
                     THEN fs[q] ELSE NoFile]

\* A remove_dir_all that leaves the files in place.
RemoveDirAll_keeps(fs) == fs

\* fs::remove_dir_all(dir) succeeding: every file under dir is unlinked.
RemoveDirAll(fs) == [q \in Paths |-> NoFile]

\* ------------------------------------------------------------------------
\* State
\* ------------------------------------------------------------------------

VARIABLES
    dirExists,  \* self.dir exists on disk
    files,      \* the files under self.dir: Paths -> file or NoFile
    pc,         \* per caller: the filesystem call it is about to make
    op,         \* per caller: the operation it runs or ran last
    k,          \* per caller: or_insert_with's key
    f,          \* per caller: the value its producer closure f returns
    called,     \* per caller: how often f was invoked in this call
    buffer,     \* per caller: the bytes the hit path read
    saved,      \* per caller: how the miss path of this call ended
    res,        \* per caller: the operation's return value
    faults,     \* I/O faults injected so far
    stored      \* per key: the value a clean miss of a sequential run produced

vars == <<dirExists, files, pc, op, k, f, called, buffer, saved, res, faults, stored>>

Init ==
    /\ dirExists = FALSE
    /\ files = [q \in Paths |-> NoFile]
    /\ pc = [p \in Procs |-> "done"]
    /\ op = [p \in Procs |-> "none"]
    /\ k = [p \in Procs |-> CHOOSE key \in Keys : TRUE]
    /\ f = [p \in Procs |-> CHOOSE v \in Values : TRUE]
    /\ called = [p \in Procs |-> 0]
    /\ buffer = [p \in Procs |-> <<>>]
    /\ saved = [p \in Procs |-> "none"]
    /\ res = [p \in Procs |-> NoResult]
    /\ faults = 0
    /\ stored = [key \in Keys |-> "none"]

\* Whether the next filesystem call fails with an unexpected I/O error.
FaultChoice == IF faults < MaxFaults THEN {FALSE, TRUE} ELSE {FALSE}

Faulted(fault) == faults' = IF fault THEN faults + 1 ELSE faults

\* The caller's return: the operation is over with result r.
Return(p, r) ==
    /\ pc' = [pc EXCEPT ![p] = "done"]
    /\ res' = [res EXCEPT ![p] = r]

\* A call begins: the per-call locals are fresh.
Enter(p, name) ==
    /\ op' = [op EXCEPT ![p] = name]
    /\ called' = [called EXCEPT ![p] = 0]
    /\ buffer' = [buffer EXCEPT ![p] = <<>>]
    /\ saved' = [saved EXCEPT ![p] = "none"]

\* The directory a path lies in exists: self.dir for a key of one segment,
\* a directory under self.dir for a key of several.  Without it File::open
\* and create_new fail with ErrorKind::NotFound.
ParentExists(path) ==
    /\ dirExists
    /\ Len(path) = 1 \/ SubSeq(path, 1, Len(path) - 1) \in SubDirs

\* ------------------------------------------------------------------------
\* or_insert_with
\* ------------------------------------------------------------------------

\* or_insert_with(key, || v) is called; fs::create_dir_all(self.dir)?.
OrInsertWith(p) ==
    /\ pc[p] = "done"
    /\ \E key \in Keys, v \in Values, fault \in FaultChoice :
        /\ Enter(p, "or_insert_with")
        /\ k' = [k EXCEPT ![p] = key]
        /\ f' = [f EXCEPT ![p] = v]
        /\ Faulted(fault)
        /\ IF fault
           THEN /\ Return(p, Err("Other"))
                /\ UNCHANGED dirExists
           ELSE /\ dirExists' = TRUE
                /\ pc' = [pc EXCEPT ![p] = "open"]
                /\ res' = [res EXCEPT ![p] = NoResult]
        /\ UNCHANGED files

\* A hit path that runs the producer before it reads the entry.
Hit_invokes_producer(p, data) ==
    /\ buffer' = [buffer EXCEPT ![p] = data]
    /\ called' = [called EXCEPT ![p] = called[p] + 1]
    /\ Return(p, from_u8(data))
    /\ UNCHANGED <<saved, files>>

\* File::open returned Ok(fh): metadata, read_exact into buffer, from_u8.
Hit(p, data) ==
    /\ buffer' = [buffer EXCEPT ![p] = data]
    /\ Return(p, from_u8(data))
    /\ UNCHANGED <<called, saved, files>>

\* A miss path that treats a declined encoding as an error.
Miss_declined_fails(p) ==
    /\ called' = [called EXCEPT ![p] = called[p] + 1]
    /\ IF to_u8(f[p]) = None
       THEN /\ Return(p, Err("Other"))
            /\ saved' = [saved EXCEPT ![p] = "declined"]
       ELSE /\ pc' = [pc EXCEPT ![p] = "create_new"]
            /\ UNCHANGED <<res, saved>>
    /\ UNCHANGED <<buffer, files>>

\* File::open returned NotFound: r = f(), then to_u8(&r); save_to is entered
\* with Some(bin), and Ok(r) is returned at once with None.
Miss(p) ==
    /\ called' = [called EXCEPT ![p] = called[p] + 1]
    /\ IF to_u8(f[p]) = None
       THEN /\ Return(p, Ok(f[p]))
            /\ saved' = [saved EXCEPT ![p] = "declined"]
       ELSE /\ pc' = [pc EXCEPT ![p] = "create_new"]
            /\ UNCHANGED <<res, saved>>
    /\ UNCHANGED <<buffer, files>>

\* An open whose every error is taken for NotFound.
OpenFailed_as_miss(p) == Miss(p)

\* File::open failing with a kind other than NotFound (or metadata or
\* read_exact failing): the error is returned.
OpenFailed(p) ==
    /\ Return(p, Err("Other"))
    /\ UNCHANGED <<called, buffer, saved, files>>

\* File::open(path) and what follows it without another filesystem call by
\* this caller.
OIW_Open(p) ==
    /\ pc[p] = "open"
    /\ \E fault \in FaultChoice :
        LET path == PathOf(k[p]) IN
        /\ Faulted(fault)
        /\ IF fault
           THEN OpenFailed(p)
           ELSE IF ParentExists(path) /\ files[path] # NoFile
           THEN Hit(p, files[path].data)
           ELSE Miss(p)
        /\ UNCHANGED <<dirExists, op, k, f>>

\* A miss path that drops save_to's error and returns the value.
SaveFailed_swallowed(p, kind) ==
    /\ Return(p, Ok(f[p]))
    /\ saved' = [saved EXCEPT ![p] = "failed"]

\* Self::save_to(path, &bin)? failing: the error is or_insert_with's result.
SaveFailed(p, kind) ==
    /\ Return(p, Err(kind))
    /\ saved' = [saved EXCEPT ![p] = "failed"]

\* A miss path that answers with what is on disk after save_to.
SaveReturned_rereads(p, how) ==
    /\ Return(p, from_u8(files[PathOf(k[p])].data))
    /\ saved' = [saved EXCEPT ![p] = how]

\* save_to returned Ok(()): or_insert_with returns Ok(r), how being whether
\* save_to skipped or renamed.
SaveReturned(p, how) ==
    /\ Return(p, Ok(f[p]))
    /\ saved' = [saved EXCEPT ![p] = how]

\* create(true) in place of create_new(true): an existing file is no error.
AlreadyExists_ignored(fs, save_path) == FALSE

\* create_new(true) finding a file at save_path: ErrorKind::AlreadyExists.
AlreadyExists(fs, save_path) == fs[save_path] # NoFile

\* A save_to that reclaims a temp file nobody is writing: it truncates the
\* file and goes on as its writer.
Save_CreateNew_reclaims(p) ==
    /\ pc[p] = "create_new"
    /\ \E fault \in FaultChoice :
        LET save_path == SavePathOf(PathOf(k[p])) IN
        /\ Faulted(fault)
        /\ IF fault
           THEN /\ SaveFailed(p, "Other")
                /\ UNCHANGED files
           ELSE IF ~ParentExists(save_path)
           THEN /\ SaveFailed(p, "NotFound")
                /\ UNCHANGED files
           ELSE IF AlreadyExists(files, save_path)
                   /\ files[save_path].writer # NoProc
           THEN /\ SaveReturned(p, "skipped")
                /\ UNCHANGED files
           ELSE /\ files' = CreateNew(files, save_path, p)
                /\ pc' = [pc EXCEPT ![p] = "write_all"]
                /\ UNCHANGED <<res, saved>>
        /\ UNCHANGED <<dirExists, op, k, f, called, buffer>>

\* save_to, step 1: create_new(true) on save_path.
Save_CreateNew(p) ==
    /\ pc[p] = "create_new"
    /\ \E fault \in FaultChoice :
        LET save_path == SavePathOf(PathOf(k[p])) IN
        /\ Faulted(fault)
        /\ IF fault
           THEN /\ SaveFailed(p, "Other")
                /\ UNCHANGED files
           ELSE IF ~ParentExists(save_path)
           THEN /\ SaveFailed(p, "NotFound")
                /\ UNCHANGED files
           ELSE IF AlreadyExists(files, save_path)
           THEN /\ SaveReturned(p, "skipped")
                /\ UNCHANGED files
           ELSE /\ files' = CreateNew(files, save_path, p)
                /\ pc' = [pc EXCEPT ![p] = "write_all"]
                /\ UNCHANGED <<res, saved>>
        /\ UNCHANGED <<dirExists, op, k, f, called, buffer>>

\* save_to, step 2: f.write_all(bytes)?.
Save_WriteAll(p) ==
    /\ pc[p] = "write_all"
    /\ \E fault \in FaultChoice :
        /\ Faulted(fault)
        /\ IF fault
           THEN /\ SaveFailed(p, "Other")
                /\ files' = CloseFd(files, p)
           ELSE /\ files' = WriteAll(files, p, to_u8(f[p])[1])
                /\ pc' = [pc EXCEPT ![p] = "rename"]
                /\ UNCHANGED <<res, saved>>
        /\ UNCHANGED <<dirExists, op, k, f, called, buffer>>

\* save_to, step 3: fs::rename(&save_path, path)?; Ok(()).
Save_Rename(p) ==
    /\ pc[p] = "rename"
    /\ \E fault \in FaultChoice :
        LET path == PathOf(k[p])
            save_path == SavePathOf(path)
        IN
        /\ Faulted(fault)
        /\ IF fault
           THEN /\ SaveFailed(p, "Other")
                /\ files' = CloseFd(files, p)
           ELSE IF files[save_path] = NoFile
           THEN /\ SaveFailed(p, "NotFound")
                /\ files' = CloseFd(files, p)
           ELSE /\ SaveReturned(p, "renamed")
                /\ files' = CloseFd(Rename(files, save_path, path), p)
        /\ UNCHANGED <<dirExists, op, k, f, called, buffer>>

\* ------------------------------------------------------------------------
\* flush and invalidate
\* ------------------------------------------------------------------------

\* flush is called; fs::remove_dir_all(&self.dir) and its match.
Flush(p) ==
    /\ pc[p] = "done"
    /\ \E fault \in FaultChoice :
        /\ Enter(p, "flush")
        /\ Faulted(fault)
        /\ IF fault
           THEN /\ Return(p, Err("Other"))
                /\ UNCHANGED <<dirExists, files>>
           ELSE IF ~dirExists
           THEN /\ Return(p, Ok(Unit))
                /\ UNCHANGED <<dirExists, files>>
           ELSE /\ files' = RemoveDirAll(files)
                /\ dirExists' = FALSE
                /\ pc' = [pc EXCEPT ![p] = "create_dir"]
                /\ res' = [res EXCEPT ![p] = NoResult]
        /\ UNCHANGED <<k, f>>

\* create_dir_all in place of create_dir: an existing directory is no error.
DirAlreadyExists_ignored(exists) == FALSE

\* fs::create_dir finding the directory: ErrorKind::AlreadyExists.
DirAlreadyExists(exists) == exists

\* flush, after remove_dir_all returned Ok: fs::create_dir(&self.dir).
Flush_CreateDir(p) ==
    /\ pc[p] = "create_dir"
    /\ \E fault \in FaultChoice :
        /\ Faulted(fault)
        /\ IF fault
           THEN /\ Return(p, Err("Other"))
                /\ UNCHANGED dirExists
           ELSE IF DirAlreadyExists(dirExists)
           THEN /\ Return(p, Err("AlreadyExists"))
                /\ UNCHANGED dirExists
           ELSE /\ Return(p, Ok(Unit))
                /\ dirExists' = TRUE
        /\ UNCHANGED <<files, op, k, f, called, buffer, saved>>

\* invalidate(sub_path): fs::remove_dir_all(&base_dir), its result returned.
Invalidate(p) ==
    /\ pc[p] = "done"
    /\ \E fault \in FaultChoice :
        /\ Enter(p, "invalidate")
        /\ Faulted(fault)
        /\ IF fault
           THEN /\ Return(p, Err("Other"))
                /\ UNCHANGED <<dirExists, files>>
           ELSE IF ~dirExists
           THEN /\ Return(p, Err("NotFound"))
                /\ UNCHANGED <<dirExists, files>>
           ELSE /\ Return(p, Ok(Unit))
                /\ files' = RemoveDirAll(files)
                /\ dirExists' = FALSE
        /\ UNCHANGED <<k, f>>

\* ------------------------------------------------------------------------
\* Specifications
\* ------------------------------------------------------------------------

\* Callers interleave freely at every filesystem call.
Next ==
    \E p \in Procs :
        \/ OrInsertWith(p) /\ UNCHANGED stored
        \/ OIW_Open(p) /\ UNCHANGED stored
        \/ Save_CreateNew(p) /\ UNCHANGED stored
        \/ Save_WriteAll(p) /\ UNCHANGED stored
        \/ Save_Rename(p) /\ UNCHANGED stored
        \/ Flush(p) /\ UNCHANGED stored
        \/ Flush_CreateDir(p) /\ UNCHANGED stored
        \/ Invalidate(p) /\ UNCHANGED stored

Spec == Init /\ [][Next]_vars

\* No other caller has an operation in progress.
Quiet(p) == \A q \in Procs \ {p} : pc[q] = "done"

\* The record of a sequential run: stored[key] is the value of the call that
\* found neither an entry nor a temp file for key and whose value to_u8
\* encodes, until the directory is removed or that call fails.
Track(p) ==
    stored' =
        IF dirExists /\ ~dirExists'
        THEN [key \in Keys |-> "none"]
        ELSE IF /\ pc[p] = "open" /\ pc'[p] = "create_new"
                /\ files[SavePathOf(PathOf(k[p]))] = NoFile
        THEN [stored EXCEPT ![k[p]] = f[p]]
        ELSE IF /\ pc[p] \in {"create_new", "write_all", "rename"}
                /\ res'[p].tag = "Err"
        THEN [stored EXCEPT ![k[p]] = "none"]
        ELSE stored

\* One operation at a time: a call starts only when no other is in progress.
SeqNext ==
    \E p \in Procs :
        \/ Quiet(p) /\ OrInsertWith(p) /\ Track(p)
        \/ Quiet(p) /\ OIW_Open(p) /\ Track(p)
        \/ Quiet(p) /\ Save_CreateNew(p) /\ Track(p)
        \/ Quiet(p) /\ Save_WriteAll(p) /\ Track(p)
        \/ Quiet(p) /\ Save_Rename(p) /\ Track(p)
        \/ Quiet(p) /\ Flush(p) /\ Track(p)
        \/ Quiet(p) /\ Flush_CreateDir(p) /\ Track(p)
        \/ Quiet(p) /\ Invalidate(p) /\ Track(p)

SeqSpec == Init /\ [][SeqNext]_vars

\* Callers interleave freely; no filesystem call fails with an unexpected
\* error and nobody calls flush or invalidate.
CleanNext ==
    \E p \in Procs :
        \/ OrInsertWith(p) /\ faults' = faults /\ UNCHANGED stored
        \/ OIW_Open(p) /\ faults' = faults /\ UNCHANGED stored
        \/ Save_CreateNew(p) /\ faults' = faults /\ UNCHANGED stored
        \/ Save_WriteAll(p) /\ faults' = faults /\ UNCHANGED stored
        \/ Save_Rename(p) /\ faults' = faults /\ UNCHANGED stored

\* The next step of the call p has begun.
Running(p) ==
    /\ OIW_Open(p) \/ Save_CreateNew(p) \/ Save_WriteAll(p) \/ Save_Rename(p)
    /\ faults' = faults
    /\ UNCHANGED stored

\* Every caller is a thread the scheduler keeps running: a call that has
\* begun takes its next step.
CleanSpec ==
    /\ Init
    /\ [][CleanNext]_vars
    /\ \A p \in Procs : WF_vars(Running(p))

\* ------------------------------------------------------------------------
\* Claims
\* ------------------------------------------------------------------------

\* decode(encode(v)) for a value v that to_u8 encodes.
RoundTrip(v) == from_u8(to_u8(v)[1])

\* The call p completes in this step without an I/O error.
Completes(p) == pc[p] # "done" /\ pc'[p] = "done" /\ res'[p].tag # "Err"

EntryFound(path) == ParentExists(path) /\ files[path] # NoFile

\* The byte vectors to_u8 can hand to save_to.
Encodings == {to_u8(v)[1] : v \in {w \in Values : to_u8(w) # None}}

\* C2: first write wins.  Once a writer's rename has put the entry file in
\* place, no writer's rename replaces it by other bytes.
C2_FirstWriteWins ==
    [][\A p \in Procs :
        LET path == PathOf(k[p]) IN
        (pc[p] = "rename" /\ pc'[p] = "done" /\ files[path] # NoFile)
            => /\ files'[path] # NoFile
               /\ files'[path].data = files[path].data
       ]_vars

\* C3: an entry file, once it exists with content c, keeps content c until
\* a step of flush or invalidate removes the directory.
C3_NeverMutated ==
    [][\A key \in Keys :
        LET path == PathOf(key) IN
        (files[path] # NoFile /\ dirExists')
            => /\ files'[path] # NoFile
               /\ files'[path].data = files[path].data
       ]_vars

\* C4 as claimed: a call whose producer ran returns Ok(the produced value),
\* whether or not the save succeeded.
C4_OkEvenIfSaveFails ==
    \A p \in Procs :
        (pc[p] = "done" /\ op[p] = "or_insert_with" /\ called[p] = 1)
            => res[p] = Ok(f[p])

\* C4, amended: a call whose producer ran returns Ok(the produced value) when
\* to_u8 declines, when save_to skips on an existing temp file and when
\* save_to renames; when save_to fails (temp creation, write or rename) the
\* call returns the I/O error and not the value.
C4_OkUnlessSaveFails ==
    \A p \in Procs :
        (pc[p] = "done" /\ op[p] = "or_insert_with" /\ called[p] = 1)
            => /\ saved[p] \in {"declined", "skipped", "renamed", "failed"}
               /\ saved[p] # "failed" => res[p] = Ok(f[p])
               /\ saved[p] = "failed" => res[p].tag = "Err"

\* C4 witness: the producer ran, save_to failed and the call returned the
\* error.
C4_Witness ==
    \E p \in Procs :
        /\ pc[p] = "done" /\ op[p] = "or_insert_with" /\ called[p] = 1
        /\ saved[p] = "failed" /\ res[p] = Err("Other")

\* C5: no partial reads.  A call that took the hit path read a complete byte
\* vector that some save_to was given, never an empty or part-written file.
C5_NoPartialRead ==
    \A p \in Procs :
        (/\ pc[p] = "done" /\ op[p] = "or_insert_with"
         /\ called[p] = 0 /\ res[p].tag # "Err")
            => buffer[p] \in Encodings

C7_HitNoWrite ==
    [][\A p \in Procs :
        /\ (pc[p] = "open" /\ pc'[p] # "open" /\ EntryFound(PathOf(k[p])))
            => /\ pc'[p] = "done"
               /\ called'[p] = 0
               /\ files' = files
               /\ dirExists' = dirExists
        /\ (pc[p] = "done" /\ pc'[p] = "open" /\ EntryFound(PathOf(k'[p])))
            => /\ files' = files
               /\ dirExists' = dirExists
       ]_vars

\* C7 witness: a hit returned the stored "7" to a caller whose producer
\* would have returned "23", and the entry is as it was.
C7_Witness ==
    \E p \in Procs :
        /\ pc[p] = "done" /\ op[p] = "or_insert_with" /\ called[p] = 0
        /\ f[p] = "23" /\ buffer[p] = <<7>> /\ res[p] = Ok("7")
        /\ EntryFound(PathOf(k[p]))
        /\ files[PathOf(k[p])].data = <<7>>

\* C8: declined encoding.  When to_u8 declines the produced value the call
\* returns Ok(value) and creates no file, so the key stays a miss; and a
\* call that finds no entry always invokes its producer.
C8_Declined ==
    [][\A p \in Procs :
        LET path == PathOf(k[p]) IN
        (/\ pc[p] = "open" /\ pc'[p] # "open"
         /\ ~EntryFound(path) /\ faults' = faults)
            => /\ called'[p] = 1
               /\ to_u8(f[p]) = None
                    => /\ pc'[p] = "done"
                       /\ res'[p] = Ok(f[p])
                       /\ files' = files
                       /\ ~EntryFound(path)'
       ]_vars

\* C8 witness: two calls for one key both ran their producers, the values
\* were declined, and the key has neither entry nor temp file.
C8_Witness ==
    \E p, q \in Procs :
        /\ p # q /\ k[p] = k[q]
        /\ pc[p] = "done" /\ saved[p] = "declined" /\ called[p] = 1
        /\ pc[q] = "done" /\ saved[q] = "declined" /\ called[q] = 1
        /\ res[p] = Ok("x") /\ res[q] = Ok("x")
        /\ dirExists
        /\ files[PathOf(k[p])] = NoFile
        /\ files[SavePathOf(PathOf(k[p]))] = NoFile

\* The directory holds no entry file and no temp file.
Empty(fs) == \A q \in Paths : fs[q] = NoFile

\* C9: flush with no concurrent operation.  On a missing directory it
\* returns Ok and changes nothing; on an existing one it removes every file
\* and, recreating the directory, returns Ok with the directory present and
\* empty, whatever it held and also when it was empty already; and a call
\* for any key on an empty directory invokes its producer.
C9_Flush ==
    [][\A p \in Procs :
        /\ (Flush(p) /\ faults' = faults /\ ~dirExists)
            => /\ pc'[p] = "done"
               /\ res'[p] = Ok(Unit)
               /\ UNCHANGED <<dirExists, files>>
        /\ (Flush(p) /\ faults' = faults /\ dirExists)
            => /\ pc'[p] = "create_dir"
               /\ Empty(files')
        /\ (Flush_CreateDir(p) /\ faults' = faults)
            => /\ res'[p] = Ok(Unit)
               /\ dirExists'
               /\ Empty(files')
        /\ (OIW_Open(p) /\ faults' = faults /\ Empty(files))
            => called'[p] = 1
       ]_vars

\* C9 witness: a flush returned Ok on a directory another call had
\* populated, and the directory is present and empty.
C9_Witness ==
    \E p, q \in Procs :
        /\ pc[p] = "done" /\ op[p] = "flush" /\ res[p] = Ok(Unit)
        /\ pc[q] = "done" /\ op[q] = "or_insert_with" /\ saved[q] = "renamed"
        /\ dirExists /\ Empty(files)

\* C10: a temp-file collision is a no-op.  When save_to finds a file at
\* save_path it returns Ok (and or_insert_with the produced value), and the
\* temp file and the entry file are exactly as they were.
C10_CollisionNoOp ==
    [][\A p \in Procs :
        LET save_path == SavePathOf(PathOf(k[p])) IN
        (/\ pc[p] = "create_new" /\ pc'[p] # "create_new"
         /\ files[save_path] # NoFile /\ faults' = faults)
            => /\ pc'[p] = "done"
               /\ res'[p] = Ok(f[p])
               /\ saved'[p] = "skipped"
               /\ files' = files
       ]_vars

\* C10 witness: a save was skipped with both the temp file and the entry
\* file of its key present, the entry holding another writer's bytes.
C10_Witness ==
    \E p \in Procs :
        LET path == PathOf(k[p]) IN
        /\ pc[p] = "done" /\ saved[p] = "skipped" /\ f[p] = "23"
        /\ files[SavePathOf(path)] # NoFile
        /\ files[path] # NoFile /\ files[path].data = <<7>>

\* The temp paths of the keys the callers use.
TempPaths == {SavePathOf(PathOf(key)) : key \in Keys}

\* No operation is in progress.
AllDone == \A p \in Procs : pc[p] = "done"

\* C11: no temp file outlives a successful save.  In a sequential run, when
\* no operation is in progress and no filesystem call has failed so far, no
\* file exists at the temp path of any key.
C11_NoTempOutlivesSave ==
    (AllDone /\ faults = 0) => \A t \in TempPaths : files[t] = NoFile

\* C12: convergence.  With fair scheduling, no failing filesystem call, no
\* flush or invalidate and no temp file to begin with, a call that found no
\* entry for its key and whose value to_u8 encodes returns Ok, and the entry
\* file of that key comes to exist holding bytes to_u8 gave for a value.
C12_Convergence ==
    \A p \in Procs : \A key \in Keys :
        /\ (pc[p] = "create_new" /\ k[p] = key)
                ~> (pc[p] = "done" /\ res[p].tag = "Ok")
        /\ (pc[p] = "create_new" /\ k[p] = key)
                ~> (EntryFound(PathOf(key)) /\ files[PathOf(key)].data \in Encodings)

\* C13: an entry for a key of several segments is created lazily.  In a
\* sequential run, a call for such a key that found no entry and whose value
\* to_u8 encodes returns Ok(value), no filesystem call failing unexpectedly,
\* and leaves the entry file in place for the next call to hit.
C13_NestedKeyCached ==
    [][\A p \in Procs :
        (/\ pc[p] \in {"create_new", "write_all", "rename"}
         /\ Len(PathOf(k[p])) > 1
         /\ pc'[p] = "done" /\ faults' = faults)
            => /\ res'[p] = Ok(f[p])
               /\ EntryFound(PathOf(k[p]))'
       ]_vars

\* C14: invalidate.  When invalidate returns Ok no entry file and no temp
\* file remains (the directory itself is gone), and a call for any key by
\* any caller that opens its entry on an empty directory invokes its
\* producer.
C14_Invalidate ==
    [][\A p \in Procs :
        /\ (pc[p] = "done" /\ res'[p] = Ok(Unit) /\ Invalidate(p))
            => /\ pc'[p] = "done"
               /\ Empty(files')
               /\ ~dirExists'
        /\ (pc[p] = "open" /\ faults' = faults /\ Empty(files) /\ OIW_Open(p))
            => called'[p] = 1
       ]_vars

\* C14 witness: an invalidate returned Ok, and the call another caller began
\* after it found no entry and has invoked its producer.
C14_Witness ==
    \E p, q \in Procs :
        /\ p # q
        /\ pc[p] = "done" /\ op[p] = "invalidate" /\ res[p] = Ok(Unit)
        /\ op[q] = "or_insert_with" /\ pc[q] = "create_new" /\ called[q] = 1
        /\ dirExists /\ Empty(files)

\* The caller q is inside save_to for entry path, between its successful
\* create_new and its rename.
InFlight(q, path) ==
    /\ pc[q] \in {"write_all", "rename"}
    /\ PathOf(k[q]) = path

\* C15: a skip means a concurrent writer of the same entry.  Whenever
\* save_to finds its temp file present and skips, another caller is inside
\* save_to for the same entry path, having created the temp file and not
\* yet renamed it; a save for another key never causes the skip.  No
\* filesystem call fails, so no failed save has left a temp file behind.
C15_SkipMeansWriter ==
    [][\A p \in Procs :
        (pc[p] = "create_new" /\ saved'[p] = "skipped")
            => \E q \in Procs \ {p} : InFlight(q, PathOf(k[p]))
       ]_vars

\* C16: save_to run to completion.  A save_to that created its temp file
\* (none existed) and wrote it, and whose rename does not fail, whether or
\* not the entry file exists already, returns Ok and leaves the entry file
\* holding exactly the bytes it was given and no file at its temp path.
C16_SaveToCompletes ==
    [][\A p \in Procs :
        LET path == PathOf(k[p])
            save_path == SavePathOf(path)
        IN
        (/\ pc[p] = "rename" /\ pc'[p] = "done" /\ faults' = faults
         /\ files[save_path] # NoFile /\ files[save_path].writer = p)
            => /\ res'[p] = Ok(f[p])
               /\ files'[path] # NoFile
               /\ files'[path].data = to_u8(f[p])[1]
               /\ files'[save_path] = NoFile
       ]_vars

\* The temp file of key is an orphan: it exists, no caller is inside save_to
\* with that temp path, and key has no entry file.
Orphan(key) ==
    LET path == PathOf(key)
        save_path == SavePathOf(path)
    IN
    /\ files[save_path] # NoFile
    /\ files[path] = NoFile
    /\ \A q \in Procs :
        pc[q] \in {"write_all", "rename"} => SavePathOf(PathOf(k[q])) # save_path

\* C17: an orphan temp file makes its key uncacheable.  While the temp file
\* of key is an orphan, every step that does not remove the directory leaves
\* it an orphan with the same content, and a call for key, no filesystem
\* call failing unexpectedly, invokes its producer in its open step and
\* returns Ok(its value) from save_to's skip, changing no file.
C17_OrphanBlocksKey ==
    [][\A key \in Keys :
        LET save_path == SavePathOf(PathOf(key)) IN
        Orphan(key) =>
            /\ dirExists' => /\ Orphan(key)'
                             /\ files'[save_path] = files[save_path]
            /\ \A p \in Procs :
                (k[p] = key /\ faults' = faults) =>
                    /\ (pc[p] = "open" /\ pc'[p] # "open")
                        => /\ called'[p] = 1
                           /\ IF to_u8(f[p]) = None
                              THEN pc'[p] = "done" /\ res'[p] = Ok(f[p])
                              ELSE pc'[p] = "create_new"
                    /\ (pc[p] = "create_new" /\ pc'[p] # "create_new")
                        => /\ pc'[p] = "done"
                           /\ res'[p] = Ok(f[p])
                           /\ called'[p] = 1
                           /\ files' = files
       ]_vars

\* C17 witness: a failed write left an empty temp file behind, and a later
\* call for its key ran its producer, was skipped and returned its value;
\* the key has no entry and the temp file is still there.
C17_Witness ==
    \E p \in Procs :
        /\ pc[p] = "done" /\ op[p] = "or_insert_with"
        /\ called[p] = 1 /\ saved[p] = "skipped" /\ res[p] = Ok(f[p])
        /\ Orphan(k[p])
        /\ files[SavePathOf(PathOf(k[p]))] = File(<<>>, NoProc)
        /\ faults = 1

\* C18: early I/O errors.  When create_dir_all fails, or File::open (or the
\* read that follows it) fails with an error other than NotFound, the call
\* returns that error, its producer is not invoked, and the directory and
\* every file are as they were.
C18_EarlyError ==
    [][\A p \in Procs :
        LET Failed == /\ pc'[p] = "done"
                      /\ res'[p] = Err("Other")
                      /\ called'[p] = 0
                      /\ saved'[p] = "none"
                      /\ files' = files
                      /\ dirExists' = dirExists
        IN
        /\ (pc[p] = "done" /\ faults' # faults /\ OrInsertWith(p)) => Failed
        /\ (pc[p] = "open" /\ faults' # faults /\ OIW_Open(p)) => Failed
       ]_vars

\* C18 witness: a call for a key whose entry holds [7] ended with the I/O
\* error before its producer ran and before save_to was entered; the entry
\* is as it was and there is no temp file.
C18_Witness ==
    \E p \in Procs :
        LET path == PathOf(k[p]) IN
        /\ pc[p] = "done" /\ op[p] = "or_insert_with"
        /\ res[p] = Err("Other") /\ called[p] = 0 /\ saved[p] = "none"
        /\ faults = 1
        /\ EntryFound(path) /\ files[path] = File(<<7>>, NoProc)
        /\ path # SavePathOf(path) /\ files[SavePathOf(path)] = NoFile

\* C19: flush racing with or_insert_with.  When flush's create_dir finds
\* the directory present, which a call's create_dir_all has re-created
\* since flush's remove_dir_all, flush returns the already-exists error and
\* the directory is present afterwards.
C19_FlushRace ==
    [][\A p \in Procs :
        (Flush_CreateDir(p) /\ faults' = faults /\ dirExists)
            => /\ pc'[p] = "done"
               /\ res'[p] = Err("AlreadyExists")
               /\ dirExists'
               /\ files' = files
       ]_vars

\* C19 witness: a flush returned the already-exists error while another
\* caller's or_insert_with, begun during the flush, is under way in the
\* directory it re-created.
C19_Witness ==
    \E p, q \in Procs :
        /\ p # q
        /\ pc[p] = "done" /\ op[p] = "flush" /\ res[p] = Err("AlreadyExists")
        /\ op[q] = "or_insert_with" /\ pc[q] = "open"
        /\ dirExists
        /\ faults = 0

====
